---- MODULE Spec2Model ----
(***************************************************************************)
(* Overlay visibility, scroll lock and send-email action of the admin      *)
(* order page: EmailPreviewButton / EmailPreviewOverlay                    *)
(* (src/components/admin/OrderEmailPreviewOverlay.tsx) on top of the       *)
(* process-wide overlay registry (@/zustand/admin/overlayStore).           *)
(*                                                                         *)
(* One action is one browser event together with the React render and the  *)
(* passive effects it causes: event handlers, store notifications and the  *)
(* continuation of an awaited fetch each run to completion on the single   *)
(* UI thread, and React commits the resulting render and its effects       *)
(* before the next event is handled.                                       *)
(*                                                                         *)
(* The page that hosts the surfaces is not part of the component: each     *)
(* EmailPreviewOverlay instance mounts and is torn down on its own, and    *)
(* the registry outlives every instance.                                   *)
(***************************************************************************)
EXTENDS Integers, Sequences, FiniteSets, TLC

VARIABLES
    pages,          \* overlayStore: pages[p][o] is the isVisible flag of overlay o of page p
    mounted,        \* mounted[e]: an EmailPreviewOverlay instance for email type e is mounted
    isLoading,      \* useState(false) of the instance, line 66
    alert,          \* useState({message, isVisible, type}) of the instance, lines 67-71
    inflight,       \* number of fetch calls of the instance that have not settled yet
    bodyOverflow,   \* document.body.style.overflow
    sent,           \* the requests handed to fetch by the last step, in order
    \* Navbar (src/components/admin/Navbar.tsx)
    navbarMounted,          \* the Navbar is mounted and its listeners are registered
    isMenuDropdownVisible,  \* useState(false), line 9
    scrollListenerSees,     \* isMenuDropdownVisible as captured by the registered handleScroll
    lastEvent,              \* the last event delivered to the Navbar
    \* OrderDetails (src/app/admin/shop/page.tsx), one request at a time
    pc,             \* position of the request in OrderDetails
    params,         \* params.id of the request
    database,       \* the "orders" collection: document id -> items
    response,       \* outcome of the payment-provider fetch
    order,          \* result of getOrderById
    lookups,        \* ids passed to getDoc while serving the request
    view            \* what OrderDetails returned

overlayVars == <<pages, mounted, isLoading, alert, inflight, bodyOverflow, sent>>
navbarVars == <<navbarMounted, isMenuDropdownVisible, scrollListenerSees, lastEvent>>
pageVars == <<pc, params, database, response, order, lookups, view>>
adminVars == <<navbarVars, pageVars>>

vars == <<overlayVars, navbarVars, pageVars>>

\* Cap on the fetch calls of one instance that the model follows at once.
MaxInFlight == 2

-----------------------------------------------------------------------------
\* Static data

EmailType == {"ORDER_CONFIRMED", "ORDER_SHIPPED", "ORDER_DELIVERED"}

overlayNameKeys(emailType) ==
    CASE emailType = "ORDER_CONFIRMED" -> "orderConfirmedEmailPreview"
      [] emailType = "ORDER_SHIPPED"   -> "orderShippedEmailPreview"
      [] emailType = "ORDER_DELIVERED" -> "orderDeliveredEmailPreview"

emailSubjectsAllConfirmed(emailType) == "Your Order's Confirmed"

emailSubjects(emailType) ==
    CASE emailType = "ORDER_CONFIRMED" -> "Your Order's Confirmed"
      [] emailType = "ORDER_SHIPPED"   -> "Your Order Has Been Shipped"
      [] emailType = "ORDER_DELIVERED" -> "Your Order Has Been Delivered"

\* The static page/overlay map of the registry: page name -> overlay names.
\* The storefront page stands for the pages other than orderDetails.
PageOverlays ==
    [orderDetails |-> {"orderConfirmedEmailPreview",
                       "orderShippedEmailPreview",
                       "orderDeliveredEmailPreview"},
     storefront   |-> {"newCollection"}]

PageNames == DOMAIN PageOverlays

RegistryPairs == {<<p, o>> \in PageNames \X UNION {PageOverlays[p] : p \in PageNames} :
                     o \in PageOverlays[p]}

\* Every flag is false when the store is created.
InitialPages == [p \in PageNames |-> [o \in PageOverlays[p] |-> FALSE]]

\* Registry operations on a store value.
showOverlay(st, pageName, overlayName) ==
    [st EXCEPT ![pageName][overlayName] = TRUE]

hideOverlay(st, pageName, overlayName) ==
    [st EXCEPT ![pageName][overlayName] = FALSE]

\* Outcomes of the awaited fetch: a response with a status, or a rejection
\* carrying the transport's own error text.
Statuses == {200, 204, 404, 500}
ErrorDetails == {"TypeError: Failed to fetch"}
FetchOutcomes ==
    [kind : {"response"}, status : Statuses, detail : {""}]
        \cup [kind : {"throw"}, status : {0}, detail : ErrorDetails]

\* Response.ok: status in the range 200-299.
ResponseOkOnly200(r) == r.kind = "response" /\ r.status = 200

ResponseOk(r) == r.kind = "response" /\ r.status >= 200 /\ r.status <= 299

InitialAlert == [message |-> "", isVisible |-> FALSE, type |-> "NEUTRAL"]

-----------------------------------------------------------------------------
\* What the components read

\* EmailPreviewButton: pageName and overlayName read from the store.
ButtonPageName == "orderDetails"
ButtonOverlayNameFixedKey(emailType) == overlayNameKeys("ORDER_CONFIRMED")

ButtonOverlayName(emailType) == overlayNameKeys(emailType)

\* EmailPreviewOverlay: pageName, overlayName and isOverlayVisible.
SurfacePageName == "orderDetails"
SurfaceOverlayName(emailType) == overlayNameKeys(emailType)
IsOverlayVisibleIn(st, emailType) == st["orderDetails"][overlayNameKeys(emailType)]
isOverlayVisible(emailType) == IsOverlayVisibleIn(pages, emailType)

\* disabled={isLoading} of both renderings of the send button.
SendButtonDisabledDesktopOnly(emailType, isMobile) == isLoading[emailType] /\ ~isMobile

SendButtonDisabled(emailType, isMobile) == isLoading[emailType]

-----------------------------------------------------------------------------
\* The scroll-lock effect, deps = <<isOverlayVisible, alert.isVisible>>

EffectBodyOverlayOnly(deps) == IF deps[1] THEN "hidden" ELSE "visible"

EffectBody(deps) == IF deps[1] \/ deps[2] THEN "hidden" ELSE "visible"

EffectCleanup(ov, deps) == IF ~deps[1] /\ ~deps[2] THEN "visible" ELSE ov

DepsIn(st, al, e) == <<IsOverlayVisibleIn(st, e), al[e].isVisible>>

\* Surfaces whose effect re-runs after a render: mounted, and a dep changed.
Changed(st, al, st2, al2, e) == mounted[e] /\ DepsIn(st, al, e) # DepsIn(st2, al2, e)

\* One commit.  A store write changes one flag and a setState belongs to one
\* instance, so at most one surface has a changed dep: its cleanup runs with
\* the deps of the previous render, then its body with the new ones (the body
\* overwrites whatever the cleanup wrote).
CommitEffects(ov, st, al, st2, al2) ==
    LET rerun == {e \in EmailType : Changed(st, al, st2, al2, e)}
    IN IF rerun = {} THEN ov
       ELSE LET e == CHOOSE x \in rerun : TRUE
                cleaned == EffectCleanup(ov, DepsIn(st, al, e))
            IN EffectBody(DepsIn(st2, al2, e))

-----------------------------------------------------------------------------
\* No request is being served.
NoResponse == [kind |-> "none", ok |-> FALSE, id |-> ""]
Null == [exists |-> FALSE, id |-> "", items |-> <<>>]
NoView == [kind |-> "none", payment |-> "", items |-> <<>>]
NavbarEvent(type, target) == [type |-> type, target |-> target]

Init ==
    /\ navbarMounted = FALSE
    /\ isMenuDropdownVisible = FALSE
    /\ scrollListenerSees = FALSE
    /\ lastEvent = NavbarEvent("none", "")
    /\ pc = "idle"
    /\ params = [id |-> ""]
    /\ database = <<>>
    /\ response = NoResponse
    /\ order = Null
    /\ lookups = <<>>
    /\ view = NoView
    /\ pages = InitialPages
    /\ mounted = [e \in EmailType |-> FALSE]
    /\ isLoading = [e \in EmailType |-> FALSE]
    /\ alert = [e \in EmailType |-> InitialAlert]
    /\ inflight = [e \in EmailType |-> 0]
    /\ bodyOverflow = ""
    /\ sent = <<>>

\* The surface for e mounts: fresh state, first render, effect body runs.
Mount(e) ==
    /\ ~mounted[e]
    /\ mounted' = [mounted EXCEPT ![e] = TRUE]
    /\ isLoading' = [isLoading EXCEPT ![e] = FALSE]
    /\ alert' = [alert EXCEPT ![e] = InitialAlert]
    /\ inflight' = [inflight EXCEPT ![e] = 0]
    /\ bodyOverflow' = EffectBody(DepsIn(pages, alert', e))
    /\ sent' = <<>>
    /\ UNCHANGED <<pages, adminVars>>

\* The surface for e is torn down: the effect's cleanup runs with the values
\* of the last render and the instance's state is discarded.  A fetch still
\* pending belongs to the discarded instance; its later setState calls reach
\* no mounted component.
Unmount(e) ==
    /\ mounted[e]
    /\ bodyOverflow' = EffectCleanup(bodyOverflow, DepsIn(pages, alert, e))
    /\ mounted' = [mounted EXCEPT ![e] = FALSE]
    /\ isLoading' = [isLoading EXCEPT ![e] = FALSE]
    /\ alert' = [alert EXCEPT ![e] = InitialAlert]
    /\ inflight' = [inflight EXCEPT ![e] = 0]
    /\ sent' = <<>>
    /\ UNCHANGED <<pages, adminVars>>

\* A store write and the re-render of every subscribed surface.
StoreWrite(st2) ==
    /\ pages' = st2
    /\ bodyOverflow' = CommitEffects(bodyOverflow, pages, alert, st2, alert)
    /\ sent' = <<>>
    /\ UNCHANGED <<mounted, isLoading, alert, inflight, adminVars>>

\* onClick of EmailPreviewButton.
EmailPreviewButtonToggles(e) ==
    /\ ButtonOverlayName(e) \in PageOverlays[ButtonPageName]
    /\ StoreWrite(IF pages[ButtonPageName][ButtonOverlayName(e)]
                  THEN hideOverlay(pages, ButtonPageName, ButtonOverlayName(e))
                  ELSE showOverlay(pages, ButtonPageName, ButtonOverlayName(e)))

EmailPreviewButtonClickExclusive(e) ==
    /\ ButtonOverlayName(e) \in PageOverlays[ButtonPageName]
    /\ StoreWrite([pages EXCEPT ![ButtonPageName] =
                      [o \in PageOverlays[ButtonPageName] |-> o = ButtonOverlayName(e)]])

EmailPreviewButtonClick(e) ==
    /\ ButtonOverlayName(e) \in PageOverlays[ButtonPageName]
    /\ StoreWrite(showOverlay(pages, ButtonPageName, ButtonOverlayName(e)))

\* onClick of the back button inside the overlay (rendered while visible).
HideButtonClickAborts(e) ==
    /\ mounted[e]
    /\ isOverlayVisible(e)
    /\ pages' = hideOverlay(pages, SurfacePageName, SurfaceOverlayName(e))
    /\ bodyOverflow' = CommitEffects(bodyOverflow, pages, alert, pages', alert)
    /\ isLoading' = [isLoading EXCEPT ![e] = FALSE]
    /\ inflight' = [inflight EXCEPT ![e] = 0]
    /\ sent' = <<>>
    /\ UNCHANGED <<mounted, alert, adminVars>>

HideButtonClickClosesAlert(e) ==
    /\ mounted[e]
    /\ isOverlayVisible(e)
    /\ pages' = hideOverlay(pages, SurfacePageName, SurfaceOverlayName(e))
    /\ alert' = [alert EXCEPT ![e] = [@ EXCEPT !.isVisible = FALSE, !.message = ""]]
    /\ bodyOverflow' = CommitEffects(bodyOverflow, pages, alert, pages', alert')
    /\ sent' = <<>>
    /\ UNCHANGED <<mounted, isLoading, inflight, adminVars>>

HideButtonClick(e) ==
    /\ mounted[e]
    /\ isOverlayVisible(e)
    /\ StoreWrite(hideOverlay(pages, SurfacePageName, SurfaceOverlayName(e)))

\* hideOverlay called on the registry by any consumer, in any registry state.
RegistryHide(p, o) ==
    /\ o \in PageOverlays[p]
    /\ StoreWrite(hideOverlay(pages, p, o))

\* showOverlay called on the registry by any consumer, in any registry state.
RegistryShow(p, o) ==
    /\ o \in PageOverlays[p]
    /\ StoreWrite(showOverlay(pages, p, o))

\* A render caused by setState calls of the instance for e, and its effects.
LocalUpdate(e, loading2, alert2, inflight2) ==
    /\ isLoading' = [isLoading EXCEPT ![e] = loading2]
    /\ alert' = [alert EXCEPT ![e] = alert2]
    /\ inflight' = [inflight EXCEPT ![e] = inflight2]
    /\ bodyOverflow' = CommitEffects(bodyOverflow, pages, alert, pages, alert')
    /\ UNCHANGED <<pages, mounted, adminVars>>

\* The body of the POST to /api/order-emails.
RequestBody(emailType) ==
    [customerEmail |-> "khanofemperia@gmail.com",
     emailSubject  |-> emailSubjects(emailType),
     emailType     |-> emailType]

\* handleSendEmail up to the await: onClick of either rendering of the send
\* button, which the browser delivers only while the button is not disabled.
SendButtonClickClearsAlert(e, isMobile) ==
    /\ mounted[e]
    /\ isOverlayVisible(e)
    /\ ~SendButtonDisabled(e, isMobile)
    /\ inflight[e] < MaxInFlight
    /\ sent' = <<RequestBody(e)>>
    /\ LocalUpdate(e, TRUE, InitialAlert, inflight[e] + 1)

SendButtonClick(e, isMobile) ==
    /\ mounted[e]
    /\ isOverlayVisible(e)
    /\ ~SendButtonDisabled(e, isMobile)
    /\ inflight[e] < MaxInFlight
    /\ sent' = <<RequestBody(e)>>
    /\ LocalUpdate(e, TRUE, alert[e], inflight[e] + 1)

\* The error caught by the catch block, if any: the rejection of fetch, or
\* the Error thrown for a response that is not ok.
ThrownError(r) ==
    IF r.kind = "throw" THEN [thrown |-> TRUE, message |-> r.detail]
    ELSE IF ~ResponseOk(r) THEN [thrown |-> TRUE, message |-> "Failed to send email"]
    ELSE [thrown |-> FALSE, message |-> ""]

\* The alert set by the try block or by the catch block.
AlertShowingErrorDetail(r) ==
    IF ThrownError(r).thrown
    THEN [message |-> ThrownError(r).message, isVisible |-> TRUE, type |-> "ERROR"]
    ELSE [message |-> "Email sent successfully!", isVisible |-> TRUE, type |-> "SUCCESS"]

AlertAfterSettle(r) ==
    IF ThrownError(r).thrown
    THEN [message |-> "Failed to send email", isVisible |-> TRUE, type |-> "ERROR"]
    ELSE [message |-> "Email sent successfully!", isVisible |-> TRUE, type |-> "SUCCESS"]

\* isLoading after the try/catch/finally.
LoadingStuckOnError(r) == ThrownError(r).thrown

LoadingAfterSettle(r) == FALSE

\* handleSendEmail after the await: the fetch of the instance settles with r.
FetchSettlesRetries(e, r) ==
    /\ mounted[e]
    /\ inflight[e] > 0
    /\ IF ThrownError(r).thrown
       THEN /\ sent' = <<RequestBody(e)>>
            /\ LocalUpdate(e, TRUE, alert[e], inflight[e])
       ELSE /\ sent' = <<>>
            /\ LocalUpdate(e, LoadingAfterSettle(r), AlertAfterSettle(r), inflight[e] - 1)

FetchSettlesClosesOverlay(e, r) ==
    /\ mounted[e]
    /\ inflight[e] > 0
    /\ sent' = <<>>
    /\ isLoading' = [isLoading EXCEPT ![e] = LoadingAfterSettle(r)]
    /\ alert' = [alert EXCEPT ![e] = AlertAfterSettle(r)]
    /\ inflight' = [inflight EXCEPT ![e] = inflight[e] - 1]
    /\ pages' = IF ThrownError(r).thrown THEN pages
                ELSE hideOverlay(pages, SurfacePageName, SurfaceOverlayName(e))
    /\ bodyOverflow' = CommitEffects(bodyOverflow, pages, alert, pages', alert')
    /\ UNCHANGED <<mounted, adminVars>>

FetchSettles(e, r) ==
    /\ mounted[e]
    /\ inflight[e] > 0
    /\ sent' = <<>>
    /\ LocalUpdate(e, LoadingAfterSettle(r), AlertAfterSettle(r), inflight[e] - 1)

\* closeAlert, the hideAlertMessage callback of the rendered AlertMessage.
AlertAfterCloseReset(a) == InitialAlert

AlertAfterClose(a) == [a EXCEPT !.isVisible = FALSE, !.message = ""]

closeAlert(e) ==
    /\ mounted[e]
    /\ alert[e].isVisible
    /\ sent' = <<>>
    /\ LocalUpdate(e, isLoading[e], AlertAfterClose(alert[e]), inflight[e])

Next ==
    \/ \E e \in EmailType : Mount(e)
    \/ \E e \in EmailType : Unmount(e)
    \/ \E e \in EmailType : EmailPreviewButtonClick(e)
    \/ \E e \in EmailType : HideButtonClick(e)
    \/ \E pr \in RegistryPairs : RegistryHide(pr[1], pr[2])
    \/ \E pr \in RegistryPairs : RegistryShow(pr[1], pr[2])
    \/ \E e \in EmailType, isMobile \in BOOLEAN : SendButtonClick(e, isMobile)
    \/ \E e \in EmailType, r \in FetchOutcomes : FetchSettles(e, r)
    \/ \E e \in EmailType : closeAlert(e)

Spec == Init /\ [][Next]_vars

\* Every fetch issued by a mounted instance eventually resolves or rejects.
LiveSpec == Spec /\ \A e \in EmailType : WF_vars(\E r \in FetchOutcomes : FetchSettles(e, r))

-----------------------------------------------------------------------------
\* Navbar

\* The value of isMenuDropdownVisible seen by the handleScroll that is
\* registered after a render: the effect depends on isMenuDropdownVisible, so
\* it removes the old listeners and registers new ones on every change.
ScrollListenerNeverRenewed(visible) == FALSE

ScrollListenerAfterRender(visible) == visible

\* Targets of a mousedown: the menu button and the dropdown's links are inside
\* the menuRef container, everything else is outside.
MouseTargets == {"menuButton", "dropdownLink", "outside"}
MenuContains(target) == target \in {"menuButton", "dropdownLink"}

NavbarRender(visible, event) ==
    /\ lastEvent' = event
    /\ isMenuDropdownVisible' = visible
    /\ scrollListenerSees' = ScrollListenerAfterRender(visible)
    /\ UNCHANGED <<navbarMounted, overlayVars, pageVars>>

NavbarMount ==
    /\ ~navbarMounted
    /\ navbarMounted' = TRUE
    /\ isMenuDropdownVisible' = FALSE
    /\ scrollListenerSees' = FALSE
    /\ lastEvent' = NavbarEvent("mount", "")
    /\ UNCHANGED <<overlayVars, pageVars>>

NavbarUnmount ==
    /\ navbarMounted
    /\ navbarMounted' = FALSE
    /\ isMenuDropdownVisible' = FALSE
    /\ scrollListenerSees' = FALSE
    /\ lastEvent' = NavbarEvent("unmount", "")
    /\ UNCHANGED <<overlayVars, pageVars>>

\* onClick of the menu button.
toggleMenuDropdown ==
    /\ navbarMounted
    /\ NavbarRender(~isMenuDropdownVisible, NavbarEvent("click", "menuButton"))

\* mousedown on the document; a dropdown link exists only while it is shown.
handleClickOutside(target) ==
    /\ navbarMounted
    /\ target = "dropdownLink" => isMenuDropdownVisible
    /\ NavbarRender(IF ~MenuContains(target) THEN FALSE ELSE isMenuDropdownVisible,
                    NavbarEvent("mousedown", target))

\* scroll on the window (capture phase).
handleScroll ==
    /\ navbarMounted
    /\ NavbarRender(IF scrollListenerSees THEN FALSE ELSE isMenuDropdownVisible,
                    NavbarEvent("scroll", ""))

-----------------------------------------------------------------------------
\* OrderDetails page

OrderIds == {"A", "B"}
ItemLists == {<<"product">>, <<"product", "upsell">>}

\* Contents of the "orders" collection: some of the ids have a document.
Databases == UNION {[S -> ItemLists] : S \in SUBSET OrderIds}

\* Outcomes of the payment-provider fetch: a response that is not ok, an ok
\* response whose order has any id (the empty one included), or a rejection.
PaypalOutcomes ==
    {[kind |-> "response", ok |-> FALSE, id |-> ""],
     [kind |-> "reject", ok |-> FALSE, id |-> ""]}
        \cup [kind : {"response"}, ok : {TRUE}, id : OrderIds \cup {""}]

\* getOrderById: the order, or Null, and the ids it passed to getDoc.
getOrderById(id, db) ==
    IF id = "" THEN [order |-> Null, lookups |-> <<>>]
    ELSE IF id \in DOMAIN db
    THEN [order |-> [exists |-> TRUE, id |-> id, items |-> db[id]], lookups |-> <<id>>]
    ELSE [order |-> Null, lookups |-> <<id>>]

\* The line items the page renders: order && order.items.map(...).
RenderedItems(o) == IF o.exists THEN o.items ELSE <<>>

\* A request for /admin/shop/orders/[id] arrives.
OrderDetailsRequest(id, db) ==
    /\ pc \in {"idle", "done"}
    /\ pc' = "fetching"
    /\ params' = [id |-> id]
    /\ database' = db
    /\ response' = NoResponse
    /\ order' = Null
    /\ lookups' = <<>>
    /\ view' = NoView
    /\ UNCHANGED <<overlayVars, navbarVars>>

\* The awaited fetch settles with r; a response that is not ok ends the
\* request with the error view, a rejection ends it with the thrown error.
OrderDetailsFetchedIgnoresOk(r) ==
    /\ pc = "fetching"
    /\ response' = r
    /\ IF r.kind = "reject"
       THEN pc' = "done" /\ view' = [kind |-> "thrown", payment |-> "", items |-> <<>>]
       ELSE pc' = "lookup" /\ view' = view
    /\ UNCHANGED <<params, database, order, lookups, overlayVars, navbarVars>>

OrderDetailsFetched(r) ==
    /\ pc = "fetching"
    /\ response' = r
    /\ IF r.kind = "reject"
       THEN pc' = "done" /\ view' = [kind |-> "thrown", payment |-> "", items |-> <<>>]
       ELSE IF ~r.ok
       THEN pc' = "done" /\ view' = [kind |-> "error", payment |-> "", items |-> <<>>]
       ELSE pc' = "lookup" /\ view' = view
    /\ UNCHANGED <<params, database, order, lookups, overlayVars, navbarVars>>

\* await getOrderById(paypalOrder.id) and the render that follows it; getDoc
\* either delivers a snapshot or rejects.
OrderDetailsLookedUp(getDocRejects) ==
    /\ pc = "lookup"
    /\ pc' = "done"
    /\ LET got == getOrderById(response.id, database)
       IN /\ lookups' = got.lookups
          /\ IF getDocRejects /\ got.lookups # <<>>
             THEN /\ order' = Null
                  /\ view' = [kind |-> "thrown", payment |-> "", items |-> <<>>]
             ELSE /\ order' = got.order
                  /\ view' = [kind |-> "details", payment |-> response.id,
                              items |-> RenderedItems(got.order)]
    /\ UNCHANGED <<params, database, response, overlayVars, navbarVars>>

AdminNext ==
    \/ NavbarMount
    \/ NavbarUnmount
    \/ toggleMenuDropdown
    \/ \E target \in MouseTargets : handleClickOutside(target)
    \/ handleScroll
    \/ \E id \in OrderIds, db \in Databases : OrderDetailsRequest(id, db)
    \/ \E r \in PaypalOutcomes : OrderDetailsFetched(r)
    \/ \E getDocRejects \in BOOLEAN : OrderDetailsLookedUp(getDocRejects)

AdminSpec == Init /\ [][AdminNext]_vars

-----------------------------------------------------------------------------
\* Properties

\* The surface for e is mounted and renders its overlay or its alert.
RenderedVisible(e) == mounted[e] /\ (isOverlayVisible(e) \/ alert[e].isVisible)

ScrollDisabled == bodyOverflow = "hidden"

ErrorAlert == [message |-> "Failed to send email", isVisible |-> TRUE, type |-> "ERROR"]
SuccessAlert == [message |-> "Email sent successfully!", isVisible |-> TRUE, type |-> "SUCCESS"]

Is2xx(r) == r.kind = "response" /\ r.status \in 200..299

\* hideOverlay reaches the overlay of email type e, from its own back button
\* or from any other caller of the registry.
HidesOverlayOf(e) ==
    \/ HideButtonClick(e)
    \/ RegistryHide("orderDetails", overlayNameKeys(e))

\* C1: in the state right after the button of email type e called
\* showOverlay, the surface of e reads its flag as true; in the state right
\* after hideOverlay was called for a pair, from the surface's back button or
\* by any consumer, the flag of that pair reads false.
C1_ReadAfterWrite ==
    [][/\ \A e \in EmailType :
            /\ EmailPreviewButtonClick(e) =>
                  (isOverlayVisible(e)' /\ pages'["orderDetails"][overlayNameKeys(e)])
            /\ HideButtonClick(e) =>
                  (~isOverlayVisible(e)' /\ ~pages'["orderDetails"][overlayNameKeys(e)])
       /\ \A pr \in RegistryPairs :
            RegistryHide(pr[1], pr[2]) => ~pages'[pr[1]][pr[2]]]_vars

C1_Witness ==
    \E e \in EmailType :
        /\ mounted[e]
        /\ isOverlayVisible(e)
        /\ ScrollDisabled
        /\ \E f \in EmailType \ {e} : mounted[f] /\ ~isOverlayVisible(f)

\* C2: showOverlay on an overlay that is already visible leaves it visible,
\* hideOverlay on one that is already hidden leaves it hidden, and both leave
\* the whole registry as it was.
C2_Idempotent ==
    [][/\ \A e \in EmailType :
            (isOverlayVisible(e) /\ EmailPreviewButtonClick(e)) =>
                (isOverlayVisible(e)' /\ pages' = pages)
       /\ \A pr \in RegistryPairs :
            (~pages[pr[1]][pr[2]] /\ RegistryHide(pr[1], pr[2])) =>
                (~pages'[pr[1]][pr[2]] /\ pages' = pages)]_vars

\* A state a second showOverlay starts from and ends in.
C2_Witness ==
    \E e \in EmailType :
        /\ isOverlayVisible(e)
        /\ ENABLED EmailPreviewButtonClick(e)
        /\ showOverlay(pages, ButtonPageName, ButtonOverlayName(e)) = pages

\* C3: page scroll is disabled exactly when some surface renders a visible
\* overlay or alert.
C3_ScrollLockInvariant ==
    ScrollDisabled <=> \E e \in EmailType : RenderedVisible(e)

\* C4: hiding a visible overlay while the alert of the same surface is
\* visible leaves scroll locked; a dismissal after which nothing is rendered
\* visible leaves scroll unlocked.
C4_HideThenDismiss ==
    [][\A e \in EmailType :
         /\ (mounted[e] /\ isOverlayVisible(e) /\ alert[e].isVisible /\ HidesOverlayOf(e))
               => ScrollDisabled'
         /\ (closeAlert(e) /\ \A f \in EmailType : ~RenderedVisible(f)')
               => bodyOverflow' = "visible"]_vars

C4_Witness ==
    \E e \in EmailType :
        /\ mounted[e]
        /\ ~isOverlayVisible(e)
        /\ alert[e].isVisible
        /\ ScrollDisabled
        /\ \A f \in EmailType \ {e} : ~RenderedVisible(f)

\* C5: no state has scroll disabled while nothing is rendered visible; in
\* particular none after a surface was torn down.
C5_NoLeakedScrollLock ==
    ScrollDisabled => \E e \in EmailType : RenderedVisible(e)

\* C6: an instance has at most one fetch in flight; while one is in flight
\* the instance is loading and both renderings of the send button are
\* disabled; a send starts only in an instance that is not loading.
C6_BusyExclusive ==
    /\ [](\A e \in EmailType :
            /\ inflight[e] <= 1
            /\ inflight[e] > 0 =>
                  /\ isLoading[e]
                  /\ SendButtonDisabled(e, FALSE)
                  /\ SendButtonDisabled(e, TRUE))
    /\ [][\A e \in EmailType, isMobile \in BOOLEAN :
            SendButtonClick(e, isMobile) =>
                (~isLoading[e] /\ inflight[e] = 0 /\ isLoading'[e] /\ inflight'[e] = 1)]_vars

C6_Witness ==
    \E e \in EmailType :
        /\ inflight[e] = 1
        /\ isLoading[e]
        /\ isOverlayVisible(e)
        /\ ~ENABLED SendButtonClick(e, TRUE)
        /\ ~ENABLED SendButtonClick(e, FALSE)

\* C7: a send that ends with a non-2xx response or a rejected fetch leaves
\* the error alert with the fixed text visible, the instance not loading and
\* the send button enabled; no alert ever shows the transport's error text.
C7_FailureAlert ==
    /\ [][\A e \in EmailType, r \in FetchOutcomes :
            (~Is2xx(r) /\ FetchSettles(e, r)) =>
                /\ alert'[e] = ErrorAlert
                /\ ~isLoading'[e]
                /\ ~SendButtonDisabled(e, FALSE)'
                /\ ~SendButtonDisabled(e, TRUE)']_vars
    /\ [](\A e \in EmailType : alert[e].message \notin ErrorDetails)

C7_Witness ==
    \E e \in EmailType :
        /\ mounted[e]
        /\ alert[e] = ErrorAlert
        /\ ~isLoading[e]
        /\ inflight[e] = 0

\* C8: a send that ends with a 2xx response leaves the success alert with
\* the fixed text visible, the instance not loading and the send button
\* enabled.
C8_SuccessAlert ==
    [][\A e \in EmailType, r \in FetchOutcomes :
         (Is2xx(r) /\ FetchSettles(e, r)) =>
             /\ alert'[e] = SuccessAlert
             /\ alert'[e].type # "ERROR"
             /\ ~isLoading'[e]
             /\ ~SendButtonDisabled(e, FALSE)'
             /\ ~SendButtonDisabled(e, TRUE)']_vars

C8_Witness ==
    \E e \in EmailType :
        /\ mounted[e]
        /\ alert[e] = SuccessAlert
        /\ ~isLoading[e]
        /\ inflight[e] = 0

IdleWithOutcomeAlert(e) ==
    /\ ~isLoading[e]
    /\ alert[e].isVisible
    /\ alert[e].type \in {"SUCCESS", "ERROR"}

\* C9: for as long as the instance lives (a teardown discards the instance
\* together with its state), every instance that is loading eventually is
\* idle with a success or error alert visible, and an instance starts loading
\* only by a click on its send button.
C9_SubmittingLeavesOnItsOwn ==
    /\ \A e \in EmailType : isLoading[e] ~> (~mounted[e] \/ IdleWithOutcomeAlert(e))
    /\ [][\A e \in EmailType :
            (~isLoading[e] /\ isLoading'[e]) =>
                \E isMobile \in BOOLEAN : SendButtonClick(e, isMobile)]_vars

C9_Witness ==
    \E e \in EmailType :
        /\ mounted[e]
        /\ inflight[e] = 0
        /\ IdleWithOutcomeAlert(e)
        /\ ENABLED SendButtonClick(e, FALSE)

\* C10: closeAlert acts on a visible alert, hides it and empties its message,
\* and keeps its category, the loading flags, the other alerts and the
\* registry as they were.
C10_CloseAlertFrame ==
    [][\A e \in EmailType :
         closeAlert(e) =>
            /\ alert[e].isVisible
            /\ alert'[e] = [message |-> "", isVisible |-> FALSE, type |-> alert[e].type]
            /\ isLoading' = isLoading
            /\ pages' = pages
            /\ \A f \in EmailType \ {e} : alert'[f] = alert[f]]_vars

C10_Witness ==
    \E e \in EmailType :
        /\ mounted[e]
        /\ alert[e] = [message |-> "", isVisible |-> FALSE, type |-> "ERROR"]

\* C11: a step hands a request to fetch exactly when it is an accepted click
\* on a send button, and then it hands over one; the step in which a fetch
\* settles, with any outcome, issues none and leaves one fetch fewer pending.
C11_NoAutomaticRetry ==
    [][/\ \A e \in EmailType, isMobile \in BOOLEAN :
            SendButtonClick(e, isMobile) =>
                (Len(sent') = 1 /\ inflight'[e] = inflight[e] + 1)
       /\ sent' # <<>> => \E e \in EmailType, isMobile \in BOOLEAN : SendButtonClick(e, isMobile)
       /\ \A e \in EmailType, r \in FetchOutcomes :
            FetchSettles(e, r) => (sent' = <<>> /\ inflight'[e] = inflight[e] - 1)]_vars

C11_Witness ==
    \E e \in EmailType :
        /\ mounted[e]
        /\ alert[e] = ErrorAlert
        /\ inflight[e] = 0
        /\ sent = <<>>
        /\ isOverlayVisible(e)

\* C12: showOverlay and hideOverlay, from the registry or from the button and
\* the back button, change no flag other than the one of the pair they name.
C12_OnlyNamedFlagChanges ==
    [][/\ \A pr \in RegistryPairs :
            (RegistryShow(pr[1], pr[2]) \/ RegistryHide(pr[1], pr[2])) =>
                \A qr \in RegistryPairs \ {pr} : pages'[qr[1]][qr[2]] = pages[qr[1]][qr[2]]
       /\ \A e \in EmailType :
            (EmailPreviewButtonClick(e) \/ HideButtonClick(e)) =>
                \A qr \in RegistryPairs \ {<<"orderDetails", overlayNameKeys(e)>>} :
                    pages'[qr[1]][qr[2]] = pages[qr[1]][qr[2]]]_vars

\* Two overlays of one page visible at once.
C12_Witness ==
    /\ pages["orderDetails"]["orderConfirmedEmailPreview"]
    /\ pages["orderDetails"]["orderShippedEmailPreview"]
    /\ mounted["ORDER_CONFIRMED"]
    /\ mounted["ORDER_SHIPPED"]

\* C13: hiding the overlay leaves the pending fetch and the loading flag as
\* they were; a pending fetch of a mounted instance can settle whether or not
\* the overlay is visible, and when it settles with the overlay hidden the
\* alert becomes visible; showing the overlay again leaves a loading instance
\* loading, with both renderings of its send button disabled.
C13_NoCancellation ==
    /\ [][\A e \in EmailType :
            /\ HidesOverlayOf(e) => (inflight' = inflight /\ isLoading' = isLoading)
            /\ \A r \in FetchOutcomes :
                 (~isOverlayVisible(e) /\ FetchSettles(e, r)) =>
                     (alert'[e].isVisible /\ alert'[e].type \in {"SUCCESS", "ERROR"})
            /\ (isLoading[e] /\ EmailPreviewButtonClick(e)) =>
                 /\ isLoading'[e]
                 /\ SendButtonDisabled(e, FALSE)'
                 /\ SendButtonDisabled(e, TRUE)']_vars
    /\ [](\A e \in EmailType :
            (mounted[e] /\ inflight[e] > 0) =>
                \A r \in FetchOutcomes : ENABLED FetchSettles(e, r))

C13_Witness ==
    \E e \in EmailType :
        /\ mounted[e]
        /\ ~isOverlayVisible(e)
        /\ inflight[e] = 1
        /\ isLoading[e]

\* C14: a send click, the settling of a fetch and closeAlert leave every flag
\* of the registry unchanged; a step that changes a flag is a showOverlay or
\* a hideOverlay.
C14_FlagsOnlyThroughRegistry ==
    [][/\ \A e \in EmailType :
            ( \/ \E isMobile \in BOOLEAN : SendButtonClick(e, isMobile)
              \/ \E r \in FetchOutcomes : FetchSettles(e, r)
              \/ closeAlert(e) ) => pages' = pages
       /\ pages' # pages =>
            \/ \E pr \in RegistryPairs : RegistryShow(pr[1], pr[2]) \/ RegistryHide(pr[1], pr[2])
            \/ \E e \in EmailType : EmailPreviewButtonClick(e) \/ HideButtonClick(e)]_vars

C14_Witness ==
    \E e \in EmailType :
        /\ mounted[e]
        /\ isOverlayVisible(e)
        /\ alert[e] = [message |-> "", isVisible |-> FALSE, type |-> "SUCCESS"]
        /\ ~isLoading[e]

\* C15: the one request of a send for email type e has the fixed recipient,
\* the subject of e and the type tag e, in every state it is sent from.
ExpectedSubject(e) ==
    IF e = "ORDER_CONFIRMED" THEN "Your Order's Confirmed"
    ELSE IF e = "ORDER_SHIPPED" THEN "Your Order Has Been Shipped"
    ELSE "Your Order Has Been Delivered"

C15_RequestContent ==
    [][\A e \in EmailType, isMobile \in BOOLEAN :
         SendButtonClick(e, isMobile) =>
            sent' = <<[customerEmail |-> "khanofemperia@gmail.com",
                       emailSubject  |-> ExpectedSubject(e),
                       emailType     |-> e]>>]_vars

C15_Witness ==
    /\ Len(sent) = 1
    /\ sent[1].emailType = "ORDER_DELIVERED"
    /\ sent[1].emailSubject = "Your Order Has Been Delivered"
    /\ alert["ORDER_DELIVERED"].isVisible
    /\ alert["ORDER_SHIPPED"].isVisible

\* C17: a send click leaves every alert as it was; an alert that is visible
\* after a step and differs from the one before it was set by a fetch of its
\* instance settling in that step, and shows that fetch's outcome.
C17_AlertShowsLastOutcome ==
    [][\A e \in EmailType :
         /\ (\E isMobile \in BOOLEAN : SendButtonClick(e, isMobile)) => alert' = alert
         /\ (alert'[e].isVisible /\ alert'[e] # alert[e]) =>
               \E r \in FetchOutcomes :
                   /\ FetchSettles(e, r)
                   /\ alert'[e] = IF Is2xx(r) THEN SuccessAlert ELSE ErrorAlert]_vars

C17_Witness ==
    \E e \in EmailType :
        /\ mounted[e]
        /\ isLoading[e]
        /\ inflight[e] = 1
        /\ alert[e] = ErrorAlert

\* C18: for as long as the instance lives, its alert goes from visible to
\* hidden only in a closeAlert step; a freshly mounted instance has the alert
\* hidden, with empty message and neutral category.
C18_HiddenOnlyByCloseAlert ==
    [][\A e \in EmailType :
         /\ (alert[e].isVisible /\ ~alert'[e].isVisible /\ mounted'[e]) => closeAlert(e)
         /\ Mount(e) =>
               alert'[e] = [message |-> "", isVisible |-> FALSE, type |-> "NEUTRAL"]]_vars

C18_Witness ==
    \E e \in EmailType :
        /\ mounted[e]
        /\ alert[e].isVisible
        /\ ~isOverlayVisible(e)
        /\ ~isLoading[e]
        /\ \E f \in EmailType \ {e} : mounted[f] /\ isOverlayVisible(f)

\* C16: a request whose payment-provider response is not ok ends with the
\* error view and without any document-store lookup; a request whose response
\* is ok, and whose order id is empty or has no document, ends with order
\* null and the payment details rendered with no line items (unless getDoc
\* itself rejected), and for the empty id without any lookup.
C16_ErrorPrecedence ==
    pc = "done" =>
        /\ (response.kind = "response" /\ ~response.ok) =>
              (view.kind = "error" /\ lookups = <<>> /\ ~order.exists)
        /\ (response.kind = "response" /\ response.ok /\ view.kind # "thrown"
              /\ (response.id = "" \/ response.id \notin DOMAIN database)) =>
              /\ ~order.exists
              /\ view = [kind |-> "details", payment |-> response.id, items |-> <<>>]
        /\ (response.kind = "response" /\ response.ok /\ response.id = "") =>
              (lookups = <<>> /\ view.kind = "details")

C16_Witness ==
    /\ pc = "done"
    /\ response.ok
    /\ response.id = "B"
    /\ DOMAIN database = {"A"}
    /\ lookups = <<"B">>
    /\ view = [kind |-> "details", payment |-> "B", items |-> <<>>]

\* C19: a click on the menu button toggles the dropdown; a mousedown outside
\* the menu container leaves it hidden; a mousedown inside leaves it as it
\* was; a scroll leaves it hidden; it becomes visible only by a click on the
\* menu button.  The step conditions are read on the steps that change the
\* Navbar's state or its last event.
C19_NavbarDropdown ==
    /\ [](lastEvent = NavbarEvent("mousedown", "outside") => ~isMenuDropdownVisible)
    /\ [](lastEvent.type = "scroll" => ~isMenuDropdownVisible)
    /\ [][navbarVars' # navbarVars =>
            /\ lastEvent'.type = "click" =>
                  isMenuDropdownVisible' = ~isMenuDropdownVisible
            /\ (lastEvent'.type = "scroll" /\ isMenuDropdownVisible) =>
                  ~isMenuDropdownVisible'
            /\ (lastEvent'.type = "mousedown" /\ MenuContains(lastEvent'.target)) =>
                  isMenuDropdownVisible' = isMenuDropdownVisible
            /\ (~isMenuDropdownVisible /\ isMenuDropdownVisible') =>
                  lastEvent'.type = "click"]_vars

\* The dropdown is open after a mousedown on one of its links, and the
\* registered scroll listener is the one that closes it.
C19_Witness ==
    /\ navbarMounted
    /\ isMenuDropdownVisible
    /\ scrollListenerSees
    /\ lastEvent = NavbarEvent("mousedown", "dropdownLink")

====
